---- MODULE Spec2Model ----
(***************************************************************************)
(* Nayak Server (src/nayak-server.py): the connection acceptor, the        *)
(* per-connection session handlers, the shared user directory, the         *)
(* checkpoint store and the tick scheduler.                                *)
(*                                                                         *)
(* Spec      the protocol: one acceptor thread (start_server) and one      *)
(*           thread per accepted connection (handle_client), interleaved   *)
(*           at the statements that read or write shared state.            *)
(* SpecTick  server_tick() called concurrently by two threads, with the    *)
(*           counter arithmetic of the source.                             *)
(*                                                                         *)
(* Both start once main() has registered the periodic task and run         *)
(* load_checkpoint().  A line is kept as the words it splits into; a       *)
(* message sent to a client is kept as its kind and its argument.          *)
(***************************************************************************)
EXTENDS Integers, Sequences, FiniteSets, TLC

(***************************************************************************)
(* Bounds of the model.                                                    *)
(***************************************************************************)
MaxConns == 2       \* connections the acceptor accepts
MaxLines == 2       \* reads made by all session handlers together
MaxPeriodic == 1    \* checkpoints fired by the tick scheduler in Spec
MaxTicks == 4       \* server_tick() calls started in SpecTick, per start value
MaxLog == 3         \* entries of a commands log the model keeps
MaxChunkLen == 3    \* bytes one recv() returns in SpecScrub
MaxRecvs == 2       \* recv() calls one read loop makes for a line in SpecScrub

(***************************************************************************)
(* Program constants.                                                      *)
(***************************************************************************)
CheckpointInterval == 600
MinUsernameLen == 4
TickModulus == 65536
IAC == 255
Newline == 10

Conns == 1..MaxConns
None == 0
Names == {"alice", "bobby"}
ShortName == "abc"
UnknownName == "carol"
Threads == {"acceptor", "session"}
TickStarts == {0, 598, 65534}
NeverRun == -1

VARIABLES
    users,          \* the directory: username -> record (a function of its keys)
    file,           \* checkpoint.msgpack
    sock,           \* per connection, the server's socket: "unused", "open", "closed"
    peerClosed,     \* connections whose client has closed its end
    acc,            \* the acceptor thread: its position and the connection it holds
    sess,           \* per connection, the session thread: position and locals
    sent,           \* per connection, what the server has sent, in order
    now,            \* datetime.now(): the clock advances while a thread blocks in
                    \* accept() or recv()
    nread,          \* reads made by session handlers so far
    nperiodic,      \* checkpoints fired by server_tick() so far
    server_ticks,   \* the tick counter
    last_run,       \* period_tasks['checkpoint']['last_run']
    tick,           \* SpecTick: per thread, position inside server_tick() and its register
    task_calls,     \* SpecTick: invocations of the periodic task so far
    called,         \* SpecConn: the last call of user_is_connected and what it found
    hloop,          \* SpecScrub: the read loop of handle_client (lines 193-216)
    aloop,          \* SpecScrub: the read loop of start_server (lines 318-344)
    ck,             \* SpecCkpt: the thread inside checkpoint(): position and locals
    instants        \* SpecCkpt: the directories that existed while checkpoint() ran

vars == <<users, file, sock, peerClosed, acc, sess, sent, now, nread, nperiodic,
          server_ticks, last_run, tick, task_calls, called, hloop, aloop, ck, instants>>
protoVars == <<users, file, sock, peerClosed, acc, sess, sent, now, nread, nperiodic>>
tickVars == <<server_ticks, last_run, tick, task_calls>>
unitVars == <<called, hloop, aloop>>
ckptVars == <<ck, instants>>

(***************************************************************************)
(* Values.                                                                 *)
(***************************************************************************)
\* a datetime object, and the string datetime.isoformat() makes of it
Datetime(t) == [type |-> "datetime", t |-> t]
Isoformat(d) == [type |-> "str", t |-> d.t]

\* received_data: the words of the line and whether a newline ended it; an
\* empty read leaves received_data = ""
Line(ws) == [words |-> ws, nl |-> TRUE]
EmptyRead == [words |-> <<>>, nl |-> FALSE]
NoLine == EmptyRead

\* received_data.strip().split(' '): the split of an empty string is ['']
command_parts(rd) == IF rd.words = <<>> THEN <<"">> ELSE rd.words

\* ' '.join(command_parts[2:])
JoinFrom3(parts) == SubSeq(parts, 3, Len(parts))

LoginLines ==
    {Line(<<"LOGIN", n>>) : n \in Names \cup {ShortName}}
        \cup {Line(<<"LOGIN">>), Line(<<"HELLO">>), Line(<<>>)}

SessionLines ==
    {Line(<<"SEND", n, "hello">>) : n \in Names \cup {UnknownName}}
        \cup {Line(<<"SEND">>), Line(<<"QUIT">>), Line(<<"WHO">>), Line(<<>>),
              Line(<<"BOGUS">>)}

\* mutant: the assignment replaces the record
SetFieldAlone(rec, k, v) == [f \in {k} |-> v]

SetField(rec, k, v) == [f \in DOMAIN rec \cup {k} |-> IF f = k THEN v ELSE rec[f]]
Has(rec, k) == k \in DOMAIN rec

Msg(kind, arg) == [kind |-> kind, arg |-> arg]
Send(snt, c, m) == [snt EXCEPT ![c] = Append(@, m)]

EmptyDirectory == [u \in {} |-> None]
NoFile == [exists |-> FALSE, packed |-> EmptyDirectory]

(***************************************************************************)
(* user_is_connected(username): the answer, and the directory it leaves.   *)
(***************************************************************************)
\* mutant: the fileno() test inverted
ConnLiveInverted(us, u) ==
    /\ Has(us[u], "conn")
    /\ us[u].conn # None
    /\ sock[us[u].conn] = "closed"

ConnLive(us, u) ==
    /\ Has(us[u], "conn")
    /\ us[u].conn # None
    /\ sock[us[u].conn] # "closed"       \* fileno() is -1 once closed

\* mutant: every user is reported connected
user_is_connectedAlways(us, u) == [ret |-> TRUE, users |-> us]

user_is_connected(us, u) ==
    IF ConnLive(us, u)
    THEN [ret |-> TRUE, users |-> us]
    ELSE [ret |-> FALSE, users |-> [us EXCEPT ![u] = SetField(@, "conn", None)]]

(***************************************************************************)
(* checkpoint().                                                           *)
(***************************************************************************)
\* msgpack.packb(obj) succeeds: no datetime object inside obj
is_serializable(key, value) ==
    IF key = "messages_received"
    THEN \A i \in DOMAIN value : value[i].timestamp.type # "datetime"
    ELSE TRUE

\* lines 129-138: the fields of one record that reach the file
SerializableKeys(rec) ==
    {k \in DOMAIN rec \ {"conn"} :
        \/ (k \in {"first_login", "last_active"} /\ rec[k].type = "datetime")
        \/ is_serializable(k, rec[k])}

serializable_user(rec) ==
    [k \in SerializableKeys(rec) |->
        IF k \in {"first_login", "last_active"} /\ rec[k].type = "datetime"
        THEN Isoformat(rec[k])
        ELSE rec[k]]

\* msgpack.packb / msgpack.unpackb of a serializable object
packb(obj) == [exists |-> TRUE, packed |-> obj]
unpackb(f) == f.packed

\* lines 123-125: the liveness sweep and the notice to every connected user
CheckpointSweep(us) == [u \in DOMAIN us |-> user_is_connected(us, u).users[u]]
CheckpointNotice(us, snt) ==
    [c \in Conns |->
        IF \E u \in DOMAIN us : ConnLive(us, u) /\ us[u].conn = c
        THEN Append(snt[c], Msg("SYSTEM-MESSAGE", "Checkpoint."))
        ELSE snt[c]]

\* the whole of checkpoint(): directory, outputs and file it leaves
checkpoint(us, snt) ==
    LET swept == CheckpointSweep(us)
    IN  [users |-> swept,
         sent |-> CheckpointNotice(us, snt),
         file |-> packb([u \in DOMAIN swept |-> serializable_user(swept[u])])]

(***************************************************************************)
(* load_checkpoint().                                                      *)
(***************************************************************************)
load_checkpoint(f) == IF f.exists THEN unpackb(f) ELSE EmptyDirectory

(***************************************************************************)
(* server_tick() as the protocol sees it: the counter is advanced by every *)
(* thread at every loop level, so whether line 103 finds a multiple of the *)
(* interval is not determined by the protocol state; Spec keeps the two    *)
(* outcomes (fire = the periodic checkpoint runs inside this call).        *)
(***************************************************************************)
server_tick(fire, us, snt, f) ==
    IF fire
    THEN checkpoint(us, snt)
    ELSE [users |-> us, sent |-> snt, file |-> f]

MayFire(fire) == fire => nperiodic < MaxPeriodic
Fired(fire) == nperiodic' = IF fire THEN nperiodic + 1 ELSE nperiodic

(***************************************************************************)
(* Initial state: main() has registered the task and load_checkpoint() has *)
(* found no checkpoint file.                                               *)
(***************************************************************************)
NoSession == [pc |-> "none", username |-> "", received_data |-> NoLine, timestamp |-> 0]

InitProto ==
    /\ file = NoFile
    /\ users = load_checkpoint(NoFile)
    /\ sock = [c \in Conns |-> "unused"]
    /\ peerClosed = {}
    /\ acc = [pc |-> "accept", conn |-> None]
    /\ sess = [c \in Conns |-> NoSession]
    /\ sent = [c \in Conns |-> <<>>]
    /\ now = 0
    /\ nread = 0
    /\ nperiodic = 0

InitTickIdle ==
    /\ server_ticks = 0
    /\ last_run = NeverRun
    /\ tick = [t \in Threads |-> [pc |-> "idle", reg |-> 0]]
    /\ task_calls = 0

\* no call of user_is_connected observed, no read loop running, no thread
\* inside checkpoint()
NoCall == [username |-> "", ret |-> FALSE, before |-> EmptyDirectory]
NoLoop == [pc |-> "off", raw_data |-> <<>>, processed_data |-> <<>>,
           received_data |-> <<>>, echoed |-> <<>>, nrecv |-> 0]
NoCheckpoint == [pc |-> "idle", thread |-> None, todo |-> <<>>, size |-> 0,
                 serializable_users |-> EmptyDirectory]

InitUnitIdle ==
    /\ called = NoCall
    /\ hloop = NoLoop
    /\ aloop = NoLoop

InitCkptIdle ==
    /\ ck = NoCheckpoint
    /\ instants = {}

Init == InitProto /\ InitTickIdle /\ InitUnitIdle /\ InitCkptIdle

\* every directory that exists while a thread is inside checkpoint() is kept
\* in instants; no thread is inside it in Spec
Observed == instants' = IF ck.pc = "idle" THEN instants ELSE instants \cup {users'}

(***************************************************************************)
(* The acceptor thread, start_server().                                    *)
(***************************************************************************)
\* lines 303-315: tick, accept the next connection, send the option advisory
\* and the banner
AcceptorAccept ==
    /\ acc.pc = "accept"
    /\ \E c \in Conns, fire \in BOOLEAN :
        /\ sock[c] = "unused"
        /\ \A d \in Conns : d < c => sock[d] # "unused"
        /\ MayFire(fire)
        /\ Fired(fire)
        /\ LET t == server_tick(fire, users, sent, file)
           IN  /\ users' = t.users
               /\ file' = t.file
               /\ sent' = Send(Send(t.sent, c, Msg("IAC", "WILL ECHO")), c,
                               Msg("banner", "Please login with the LOGIN command."))
        /\ sock' = [sock EXCEPT ![c] = "open"]
        /\ acc' = [pc |-> "login", conn |-> c]
    /\ now' = now + 1
    /\ UNCHANGED <<peerClosed, sess, nread>>
    /\ UNCHANGED <<tickVars, unitVars, ck>>
    /\ Observed

\* lines 372-378: a new username
NewUserRecord(c) ==
    [conn |-> c, commands |-> <<>>, messages_received |-> <<>>,
     first_login |-> Isoformat(Datetime(now)),
     last_active |-> Isoformat(Datetime(now))]

\* lines 349-378 on a non-empty received_data: what the acceptor leaves.
\* outcome: "rejected" (error sent, socket closed), "accepted" (session thread
\* started), "raised" (an exception ends the acceptor thread)
login(c, rd, us, snt, f) ==
    LET cmd == command_parts(rd)
        same == [users |-> us, sent |-> snt, file |-> f]
    IN  IF cmd[1] # "LOGIN"
        THEN [same EXCEPT !.sent = Send(snt, c, Msg("ERROR", "You must first login to the server. Bye."))]
                 @@ [outcome |-> "rejected"]
        ELSE IF Len(cmd) < 2               \* cmd[1]: IndexError
        THEN same @@ [outcome |-> "raised"]
        ELSE LET username == cmd[2]
             IN  IF Len(username) < MinUsernameLen
                 THEN [same EXCEPT !.sent = Send(snt, c, Msg("ERROR", "Username must be at least 4 characters long. Bye."))]
                          @@ [outcome |-> "rejected"]
                 ELSE IF username \in DOMAIN us
                 THEN LET chk == user_is_connected(us, username)
                      IN  IF ~chk.ret
                          THEN [same EXCEPT !.users = [chk.users EXCEPT ![username].conn = c]]
                                   @@ [outcome |-> "accepted"]
                          ELSE [same EXCEPT !.sent = Send(snt, c, Msg("ERROR", "Username is already online. Bye."))]
                                   @@ [outcome |-> "rejected"]
                 ELSE LET created == [u \in DOMAIN us \cup {username} |->
                                         IF u = username THEN NewUserRecord(c) ELSE us[u]]
                      IN  checkpoint(created, snt) @@ [outcome |-> "accepted"]

\* lines 317-378: tick, read the login line (echoing it), validate, register,
\* start the session thread
AcceptorLogin ==
    /\ acc.pc = "login"
    /\ \E rd \in LoginLines, fire \in BOOLEAN :
        LET c == acc.conn
            t == server_tick(fire, users, sent, file)
            r == login(c, rd, t.users, Send(t.sent, c, Msg("echo", rd)), t.file)
        IN  /\ MayFire(fire)
            /\ Fired(fire)
            /\ c \notin peerClosed
            /\ users' = r.users
            /\ sent' = r.sent
            /\ file' = r.file
            /\ sock' = IF r.outcome = "rejected" THEN [sock EXCEPT ![c] = "closed"] ELSE sock
            /\ acc' = IF r.outcome = "raised"
                      THEN [pc |-> "dead", conn |-> c]
                      ELSE [pc |-> "accept", conn |-> None]
            /\ sess' = IF r.outcome = "accepted"
                       THEN [sess EXCEPT ![c] = [NoSession EXCEPT !.pc = "start",
                                                                   !.username = command_parts(rd)[2]]]
                       ELSE sess
    /\ UNCHANGED <<peerClosed, now, nread>>
    /\ UNCHANGED <<tickVars, unitVars, ck>>
    /\ Observed

\* lines 319-323, 349: the client closes before a line is complete; the read
\* returns nothing, received_data is empty and the loop accepts again
AcceptorLoginEof ==
    /\ acc.pc = "login"
    /\ \E fire \in BOOLEAN :
        LET t == server_tick(fire, users, sent, file)
        IN  /\ MayFire(fire)
            /\ Fired(fire)
            /\ users' = t.users
            /\ sent' = t.sent
            /\ file' = t.file
    /\ peerClosed' = peerClosed \cup {acc.conn}
    /\ acc' = [pc |-> "accept", conn |-> None]
    /\ UNCHANGED <<sock, sess, now, nread>>
    /\ UNCHANGED <<tickVars, unitVars, ck>>
    /\ Observed

(***************************************************************************)
(* A session thread, handle_client(conn, username).                        *)
(***************************************************************************)
Goto(c, pc) == [sess EXCEPT ![c].pc = pc]

\* lines 187-188: last_active, the login confirmation
SessionStart(c) ==
    /\ sess[c].pc = "start"
    /\ users' = [users EXCEPT ![sess[c].username] =
                    SetField(@, "last_active", Isoformat(Datetime(now)))]
    /\ sent' = Send(sent, c, Msg("logged in", sess[c].username))
    /\ sess' = Goto(c, "read")
    /\ UNCHANGED <<file, sock, peerClosed, acc, now, nread, nperiodic>>
    /\ UNCHANGED <<tickVars, unitVars, ck>>
    /\ Observed

\* lines 190-216: tick, read until a line is complete, echo it
SessionRead(c) ==
    /\ sess[c].pc = "read"
    /\ nread < MaxLines
    /\ c \notin peerClosed
    /\ \E rd \in SessionLines, fire \in BOOLEAN :
        LET t == server_tick(fire, users, sent, file)
        IN  /\ MayFire(fire)
            /\ Fired(fire)
            /\ users' = t.users
            /\ file' = t.file
            /\ sent' = Send(t.sent, c, Msg("echo", rd))
            /\ sess' = [sess EXCEPT ![c].pc = "dispatch", ![c].received_data = rd]
    /\ nread' = nread + 1
    /\ now' = now + 1
    /\ UNCHANGED <<sock, peerClosed, acc>>
    /\ UNCHANGED <<tickVars, unitVars, ck>>
    /\ Observed

\* lines 196-198: the client has closed; recv returns b'' and the inner loop
\* breaks with received_data = ""
SessionReadEof(c) ==
    /\ sess[c].pc = "read"
    /\ nread < MaxLines
    /\ \E fire \in BOOLEAN :
        LET t == server_tick(fire, users, sent, file)
        IN  /\ MayFire(fire)
            /\ Fired(fire)
            /\ users' = t.users
            /\ file' = t.file
            /\ sent' = t.sent
    /\ peerClosed' = peerClosed \cup {c}
    /\ sess' = [sess EXCEPT ![c].pc = "dispatch", ![c].received_data = EmptyRead]
    /\ nread' = nread + 1
    /\ now' = now + 1
    /\ UNCHANGED <<sock, acc>>
    /\ UNCHANGED <<tickVars, unitVars, ck>>
    /\ Observed

\* lines 196, 292-294: recv raises (connection reset); the handler prints the
\* error and leaves the loop
SessionReadError(c) ==
    /\ sess[c].pc = "read"
    /\ nread < MaxLines
    /\ c \notin peerClosed
    /\ peerClosed' = peerClosed \cup {c}
    /\ sess' = Goto(c, "raised")
    /\ nread' = nread + 1
    /\ now' = now + 1
    /\ UNCHANGED <<users, file, sock, acc, sent, nperiodic>>
    /\ UNCHANGED <<tickVars, unitVars, ck>>
    /\ Observed

\* lines 247-282, 288-289: the reply of a command that changes nothing
Reply(command, parts) ==
    CASE command = "WHO" -> Msg("Online users", "")
      [] command = "HELP" /\ Len(parts) = 1 -> Msg("Available commands", "")
      [] command = "HELP" /\ Len(parts) > 1 /\ parts[2] = "CONTRIBUTING" -> Msg("CONTRIBUTING", "")
      [] command = "HELP" /\ Len(parts) > 1 /\ parts[2] = "ABOUT" -> Msg("ABOUT", "")
      [] command = "HELP" -> Msg("ERROR", "HELP topic not found.")
      [] command = "TICKS" -> Msg("OK", "Server ticks")
      [] command = "TASKS" -> Msg("Periodic tasks", "")
      [] OTHER -> Msg("ERROR", "Command was not understood.")

\* mutant: the command log is assigned instead of appended to
LogCommandOverwrite(us, username, rd) ==
    [us EXCEPT ![username] =
        SetField(SetField(@, "last_active", Isoformat(Datetime(now))),
                 "commands", <<<<Isoformat(Datetime(now)), rd>>>>)]

\* lines 220-232: last_active and the command log (of which the model keeps
\* the first MaxLog entries; no run of Spec logs that many)
LogCommand(us, username, rd) ==
    LET rec0 == SetField(us[username], "last_active", Isoformat(Datetime(now)))
        rec1 == IF Has(rec0, "commands") THEN rec0 ELSE SetField(rec0, "commands", <<>>)
    IN  [us EXCEPT ![username] =
            SetField(rec1, "commands",
                     IF Len(rec1.commands) < MaxLog
                     THEN Append(rec1.commands, <<Isoformat(Datetime(now)), rd>>)
                     ELSE rec1.commands)]

\* lines 218-289 up to the first statement another thread can separate from
\* the next: the log, the parse, and the command's branch
SessionDispatch(c) ==
    /\ sess[c].pc = "dispatch"
    /\ LET username == sess[c].username
           rd == sess[c].received_data
           parts == command_parts(rd)
           command == parts[1]
           logged == LogCommand(users, username, rd)
       IN  CASE command = "SEND" /\ Len(parts) < 2 ->     \* command_parts[1]: IndexError
                  /\ users' = logged
                  /\ sent' = sent
                  /\ sess' = Goto(c, "raised")
             [] command = "SEND" /\ Len(parts) >= 2 /\ parts[2] \notin DOMAIN logged ->
                  /\ users' = logged
                  /\ sent' = Send(sent, c, Msg("ERROR does not exist", parts[2]))
                  /\ sess' = Goto(c, "read")
             [] command = "SEND" /\ Len(parts) >= 2 /\ parts[2] \in DOMAIN logged ->
                  LET chk == user_is_connected(logged, parts[2])
                  IN  /\ users' = chk.users
                      /\ sent' = IF chk.ret THEN sent
                                 ELSE Send(sent, c, Msg("ERROR not online", parts[2]))
                      /\ sess' = IF chk.ret
                                 THEN [sess EXCEPT ![c].pc = "send_append", ![c].timestamp = now]
                                 ELSE Goto(c, "read")
             [] command = "QUIT" ->
                  /\ users' = [logged EXCEPT ![username].conn = None]
                  /\ sent' = sent
                  /\ sess' = Goto(c, "quit_close")
             [] command = "" ->
                  /\ users' = logged
                  /\ sent' = sent
                  /\ sess' = Goto(c, "read")
             [] OTHER ->
                  /\ users' = logged
                  /\ sent' = Send(sent, c, Reply(command, parts))
                  /\ sess' = Goto(c, "read")
    /\ UNCHANGED <<file, sock, peerClosed, acc, now, nread, nperiodic>>
    /\ UNCHANGED <<tickVars, unitVars, ck>>
    /\ Observed

\* line 240: the inbox entry
InboxEntry(sender, timestamp, message) ==
    [timestamp |-> Datetime(timestamp), message |-> message]

\* mutant: line 240 is left out, the handler goes on to lines 241-242
SessionSendAppendSkipped(c) ==
    /\ sess[c].pc = "send_append"
    /\ sess' = Goto(c, "send_deliver")
    /\ UNCHANGED <<users, file, sock, peerClosed, acc, sent, now, nread, nperiodic>>
    /\ UNCHANGED <<tickVars, unitVars, ck>>
    /\ Observed

\* line 240
SessionSendAppend(c) ==
    /\ sess[c].pc = "send_append"
    /\ LET parts == command_parts(sess[c].received_data)
           recipient == parts[2]
       IN  IF Has(users[recipient], "messages_received")
           THEN /\ users' = [users EXCEPT ![recipient].messages_received =
                               Append(@, InboxEntry(sess[c].username, sess[c].timestamp,
                                                    JoinFrom3(parts)))]
                /\ sess' = Goto(c, "send_deliver")
           ELSE /\ users' = users                       \* KeyError
                /\ sess' = Goto(c, "raised")
    /\ UNCHANGED <<file, sock, peerClosed, acc, sent, now, nread, nperiodic>>
    /\ UNCHANGED <<tickVars, unitVars, ck>>
    /\ Observed

\* lines 241-242: delivery to the recipient's connection, confirmation to the
\* sender
SessionSendDeliver(c) ==
    /\ sess[c].pc = "send_deliver"
    /\ LET parts == command_parts(sess[c].received_data)
           recipient == parts[2]
           rconn == users[recipient].conn
       IN  IF rconn = None \/ sock[rconn] = "closed"    \* AttributeError, OSError
           THEN /\ sent' = sent
                /\ sess' = Goto(c, "raised")
           ELSE /\ sent' = Send(Send(sent, rconn,
                                     [kind |-> "message", arg |-> JoinFrom3(parts),
                                      sender |-> sess[c].username,
                                      timestamp |-> Datetime(sess[c].timestamp)]),
                                c, Msg("OK: Message sent", recipient))
                /\ sess' = [sess EXCEPT ![c].pc = "read", ![c].timestamp = 0]
    /\ UNCHANGED <<users, file, sock, peerClosed, acc, now, nread, nperiodic>>
    /\ UNCHANGED <<tickVars, unitVars, ck>>
    /\ Observed

\* lines 285-287: goodbye, close, leave the loop
SessionQuitClose(c) ==
    /\ sess[c].pc = "quit_close"
    /\ sent' = Send(sent, c, Msg("OK", "Goodbye."))
    /\ sock' = [sock EXCEPT ![c] = "closed"]
    /\ sess' = Goto(c, "done")
    /\ UNCHANGED <<users, file, peerClosed, acc, now, nread, nperiodic>>
    /\ UNCHANGED <<tickVars, unitVars, ck>>
    /\ Observed

(***************************************************************************)
(* The process is stopped and started again: every thread and socket of    *)
(* the old process is gone, main() runs load_checkpoint() on the file the  *)
(* old process left (lines 76-82).                                         *)
(***************************************************************************)
Restart ==
    /\ \E c \in Conns : sock[c] # "unused"
    /\ users' = load_checkpoint(file)
    /\ sock' = [c \in Conns |-> IF sock[c] = "unused" THEN "unused" ELSE "closed"]
    /\ peerClosed' = {c \in Conns : sock[c] # "unused"}
    /\ acc' = [pc |-> "accept", conn |-> None]
    /\ sess' = [c \in Conns |-> NoSession]
    /\ UNCHANGED <<file, sent, now, nread, nperiodic>>
    /\ UNCHANGED <<tickVars, unitVars, ck>>
    /\ Observed

Next ==
    \/ AcceptorAccept
    \/ AcceptorLogin
    \/ AcceptorLoginEof
    \/ \E c \in Conns : SessionStart(c)
    \/ \E c \in Conns : SessionRead(c)
    \/ \E c \in Conns : SessionReadEof(c)
    \/ \E c \in Conns : SessionReadError(c)
    \/ \E c \in Conns : SessionDispatch(c)
    \/ \E c \in Conns : SessionSendAppend(c)
    \/ \E c \in Conns : SessionSendDeliver(c)
    \/ \E c \in Conns : SessionQuitClose(c)
    \/ Restart

Spec == Init /\ [][Next]_vars

(***************************************************************************)
(* server_tick() statement by statement, called by two threads at once     *)
(* (the acceptor's loop and a session's loop).  No lock guards             *)
(* server_ticks or period_tasks, so the read and the write of line 100     *)
(* and the reads of lines 103 and 104 are separate steps.                  *)
(***************************************************************************)
\* the values of the counter the model lets a call start from
TickWindow(n) == \E s \in TickStarts : s <= n /\ n < s + MaxTicks

\* what that many calls made one after another leave behind
TaskRunsAfter(n) == n \div CheckpointInterval
LastRunAfter(n) ==
    IF n < CheckpointInterval THEN NeverRun ELSE (n \div CheckpointInterval) * CheckpointInterval

InitTick ==
    /\ InitProto
    /\ InitUnitIdle
    /\ InitCkptIdle
    /\ server_ticks \in TickStarts
    /\ last_run = LastRunAfter(server_ticks)
    /\ task_calls = TaskRunsAfter(server_ticks)
    /\ tick = [t \in Threads |-> [pc |-> "idle", reg |-> 0]]

\* line 100, the value server_ticks + 1 is computed from
TickLoad(t) ==
    /\ tick[t].pc = "idle"
    /\ TickWindow(server_ticks)
    /\ tick' = [tick EXCEPT ![t] = [pc |-> "store", reg |-> server_ticks]]
    /\ UNCHANGED <<server_ticks, last_run, task_calls>>
    /\ UNCHANGED <<protoVars, unitVars, ckptVars>>

\* line 100, the assignment
Incremented(n) == n + 1

TickStore(t) ==
    /\ tick[t].pc = "store"
    /\ server_ticks' = Incremented(tick[t].reg)
    /\ tick' = [tick EXCEPT ![t].pc = "check"]
    /\ UNCHANGED <<last_run, task_calls>>
    /\ UNCHANGED <<protoVars, unitVars, ckptVars>>

\* lines 102-103: the one registered task, interval 600
TaskDue(n) == n % CheckpointInterval = 0

TickCheck(t) ==
    /\ tick[t].pc = "check"
    /\ tick' = [tick EXCEPT ![t].pc = IF TaskDue(server_ticks) THEN "record" ELSE "idle"]
    /\ UNCHANGED <<server_ticks, last_run, task_calls>>
    /\ UNCHANGED <<protoVars, unitVars, ckptVars>>

\* line 104
TickRecord(t) ==
    /\ tick[t].pc = "record"
    /\ last_run' = server_ticks
    /\ tick' = [tick EXCEPT ![t].pc = "call"]
    /\ UNCHANGED <<server_ticks, task_calls>>
    /\ UNCHANGED <<protoVars, unitVars, ckptVars>>

\* line 105: the task runs on the calling thread
TickCall(t) ==
    /\ tick[t].pc = "call"
    /\ task_calls' = task_calls + 1
    /\ LET r == checkpoint(users, sent)
       IN  /\ users' = r.users
           /\ sent' = r.sent
           /\ file' = r.file
    /\ tick' = [tick EXCEPT ![t].pc = "idle"]
    /\ UNCHANGED <<server_ticks, last_run>>
    /\ UNCHANGED <<sock, peerClosed, acc, sess, now, nread, nperiodic>>
    /\ UNCHANGED <<unitVars, ckptVars>>

NextTick ==
    \/ \E t \in Threads : TickLoad(t)
    \/ \E t \in Threads : TickStore(t)
    \/ \E t \in Threads : TickCheck(t)
    \/ \E t \in Threads : TickRecord(t)
    \/ \E t \in Threads : TickCall(t)

SpecTick == InitTick /\ [][NextTick]_vars

(***************************************************************************)
(* user_is_connected() on its own: called on directories whose records     *)
(* hold no handle, None, or the handle of an open or of a closed socket.   *)
(***************************************************************************)
\* a record as load_checkpoint() leaves it (no conn key), and as line 373
\* makes it, with the handle h
RecordNoConn ==
    [commands |-> <<>>, messages_received |-> <<>>,
     first_login |-> Isoformat(Datetime(0)),
     last_active |-> Isoformat(Datetime(0))]
RecordWithConn(h) == SetField(RecordNoConn, "conn", h)

Records == {RecordNoConn} \cup {RecordWithConn(h) : h \in {None} \cup Conns}

InitConn ==
    /\ \E D \in SUBSET Names :
          /\ D # {}
          /\ users \in [D -> Records]
    /\ sock \in [Conns -> {"open", "closed"}]
    /\ file = NoFile
    /\ peerClosed = {}
    /\ acc = [pc |-> "accept", conn |-> None]
    /\ sess = [c \in Conns |-> NoSession]
    /\ sent = [c \in Conns |-> <<>>]
    /\ now = 0
    /\ nread = 0
    /\ nperiodic = 0
    /\ InitTickIdle
    /\ InitUnitIdle
    /\ InitCkptIdle

\* lines 90-96, one call
CallUserIsConnected(u) ==
    /\ u \in DOMAIN users
    /\ LET r == user_is_connected(users, u)
       IN  /\ users' = r.users
           /\ called' = [username |-> u, ret |-> r.ret, before |-> users]
    /\ UNCHANGED <<file, sock, peerClosed, acc, sess, sent, now, nread, nperiodic>>
    /\ UNCHANGED <<tickVars, hloop, aloop, ckptVars>>

NextConn == \E u \in Names : CallUserIsConnected(u)

SpecConn == InitConn /\ [][NextConn]_vars

(***************************************************************************)
(* The two read loops on their own: the scan that drops telnet sequences,  *)
(* the decoding, the echo and the line buffer, on chunks of bytes.  A text *)
(* is kept as its code points; for the bytes below 128 the code point is   *)
(* the byte.                                                               *)
(***************************************************************************)
\* the marker, a telnet command byte (WILL), the letter A, the newline
Bytes == {IAC, 251, 65, Newline}
Chunks == UNION {[1..n -> Bytes] : n \in 1..MaxChunkLen}

\* mutant: the marker and one byte after it are skipped
scrub_nextSkipTwo(raw_data, i) == IF raw_data[i] = IAC THEN i + 2 ELSE i + 1

\* lines 204-211 (329-336 in the acceptor): the index the scan goes on to
\* (raw_data[i] of the source is raw_data[i + 1] here)
scrub_next(raw_data, i) == IF raw_data[i] = IAC THEN i + 3 ELSE i + 1

\* lines 204-211: processed_data after the byte at i
scrub_byte(raw_data, i, processed_data) ==
    IF raw_data[i] = IAC THEN processed_data ELSE Append(processed_data, raw_data[i])

\* lines 200-211: the scan of one chunk
RECURSIVE scrub(_, _, _)
scrub(raw_data, i, processed_data) ==
    IF i > Len(raw_data)
    THEN processed_data
    ELSE scrub(raw_data, scrub_next(raw_data, i), scrub_byte(raw_data, i, processed_data))

\* bytes.decode('utf-8'): the bytes 0xFB and 0xFF occur in no UTF-8 encoding,
\* the bytes below 0x80 encode themselves
decode(bytes) == [ok |-> \A k \in DOMAIN bytes : bytes[k] < 128, text |-> bytes]

\* str.endswith("\n")
endswith_newline(text) == text # <<>> /\ text[Len(text)] = Newline

\* lines 200-216: what handle_client makes of one chunk
handler_chunk(raw_data, received_data, echoed) ==
    LET processed_data == scrub(raw_data, 1, <<>>)
        data == decode(processed_data)
    IN  IF data.ok
        THEN [outcome |-> "done", processed_data |-> processed_data,
              received_data |-> received_data \o data.text,
              echoed |-> echoed \o data.text]
        ELSE [outcome |-> "raised", processed_data |-> processed_data,
              received_data |-> received_data, echoed |-> echoed]

\* lines 327-344: the acceptor decodes, echoes and appends inside the scan
RECURSIVE acceptor_bytes(_, _, _, _, _)
acceptor_bytes(raw_data, i, processed_data, received_data, echoed) ==
    IF i > Len(raw_data)
    THEN [outcome |-> "done", processed_data |-> processed_data,
          received_data |-> received_data, echoed |-> echoed]
    ELSE LET processed == scrub_byte(raw_data, i, processed_data)
             data == decode(processed)
         IN  IF ~data.ok
             THEN [outcome |-> "raised", processed_data |-> processed,
                   received_data |-> received_data, echoed |-> echoed]
             ELSE IF data.text = <<>>                    \* if not data: break
             THEN [outcome |-> "done", processed_data |-> processed,
                   received_data |-> received_data, echoed |-> echoed]
             ELSE acceptor_bytes(raw_data, scrub_next(raw_data, i), processed,
                                 received_data \o data.text, echoed \o data.text)

\* lines 325-344: what start_server makes of one chunk
acceptor_chunk(raw_data, received_data, echoed) ==
    acceptor_bytes(raw_data, 1, <<>>, received_data, echoed)

\* where a loop stands after a chunk: the exception, the complete line, or
\* the next recv()
AfterChunk(r) ==
    IF r.outcome = "raised" THEN "raised"
    ELSE IF endswith_newline(r.received_data) THEN "line"
    ELSE "recv"

InitScrub ==
    /\ InitProto
    /\ InitTickIdle
    /\ InitCkptIdle
    /\ called = NoCall
    /\ aloop = [NoLoop EXCEPT !.pc = "recv"]            \* line 318
    /\ hloop = NoLoop

\* lines 319-344: one recv() of the acceptor's loop and the scan of the chunk
AcceptorRecv ==
    /\ aloop.pc = "recv"
    /\ aloop.nrecv < MaxRecvs
    /\ \E chunk \in Chunks :
          LET r == acceptor_chunk(chunk, aloop.received_data, aloop.echoed)
          IN  aloop' = [pc |-> AfterChunk(r), raw_data |-> chunk,
                        processed_data |-> r.processed_data,
                        received_data |-> r.received_data, echoed |-> r.echoed,
                        nrecv |-> aloop.nrecv + 1]
    /\ UNCHANGED <<protoVars, tickVars, called, hloop, ckptVars>>

\* lines 321-323: recv() returns b'', the loop is left
AcceptorRecvEof ==
    /\ aloop.pc = "recv"
    /\ aloop' = [aloop EXCEPT !.pc = "line", !.raw_data = <<>>, !.processed_data = <<>>]
    /\ UNCHANGED <<protoVars, tickVars, called, hloop, ckptVars>>

\* lines 346-378, 187-193: the line is handled, the session thread starts
\* its first read with an empty buffer
AcceptorLineDone ==
    /\ aloop.pc = "line"
    /\ aloop' = NoLoop
    /\ hloop' = [NoLoop EXCEPT !.pc = "recv"]
    /\ UNCHANGED <<protoVars, tickVars, called, ckptVars>>

\* lines 194-216: one recv() of the handler's loop and the scan of the chunk
HandlerRecv ==
    /\ hloop.pc = "recv"
    /\ hloop.nrecv < MaxRecvs
    /\ \E chunk \in Chunks :
          LET r == handler_chunk(chunk, hloop.received_data, hloop.echoed)
          IN  hloop' = [pc |-> AfterChunk(r), raw_data |-> chunk,
                        processed_data |-> r.processed_data,
                        received_data |-> r.received_data, echoed |-> r.echoed,
                        nrecv |-> hloop.nrecv + 1]
    /\ UNCHANGED <<protoVars, tickVars, called, aloop, ckptVars>>

\* lines 196-198: recv() returns b'', the loop is left
HandlerRecvEof ==
    /\ hloop.pc = "recv"
    /\ hloop' = [hloop EXCEPT !.pc = "line", !.raw_data = <<>>, !.processed_data = <<>>]
    /\ UNCHANGED <<protoVars, tickVars, called, aloop, ckptVars>>

\* lines 218-289, 190-193: the line is handled, the next read starts with
\* an empty buffer
HandlerLineDone ==
    /\ hloop.pc = "line"
    /\ hloop' = [NoLoop EXCEPT !.pc = "recv"]
    /\ UNCHANGED <<protoVars, tickVars, called, aloop, ckptVars>>

NextScrub ==
    \/ AcceptorRecv
    \/ AcceptorRecvEof
    \/ AcceptorLineDone
    \/ HandlerRecv
    \/ HandlerRecvEof
    \/ HandlerLineDone

SpecScrub == InitScrub /\ [][NextScrub]_vars

(***************************************************************************)
(* The protocol with the reads of a connection whose client has gone: once *)
(* the peer has closed, recv() returns b'' at once, every time it is       *)
(* called.  The threads of the running sessions are scheduled fairly.      *)
(***************************************************************************)
\* lines 190-198 on a connection the peer has closed: the ticks, the empty
\* read, the break out of the inner loop
SessionReadClosed(c) ==
    /\ sess[c].pc = "read"
    /\ c \in peerClosed
    /\ \E fire \in BOOLEAN :
        LET t == server_tick(fire, users, sent, file)
        IN  /\ MayFire(fire)
            /\ Fired(fire)
            /\ users' = t.users
            /\ file' = t.file
            /\ sent' = t.sent
    /\ sess' = [sess EXCEPT ![c].pc = "dispatch", ![c].received_data = EmptyRead]
    /\ UNCHANGED <<sock, peerClosed, acc, now, nread>>
    /\ UNCHANGED <<tickVars, unitVars, ck>>
    /\ Observed

\* the steps a session thread takes without waiting for its client
SessionStep(c) ==
    \/ SessionStart(c)
    \/ SessionReadClosed(c)
    \/ SessionDispatch(c)
    \/ SessionSendAppend(c)
    \/ SessionSendDeliver(c)
    \/ SessionQuitClose(c)

\* the process keeps running; a client that stays connected may send lines
NextLive ==
    \/ AcceptorAccept
    \/ AcceptorLogin
    \/ \E c \in Conns : SessionRead(c)
    \/ \E c \in Conns : SessionReadEof(c)
    \/ \E c \in Conns : SessionStep(c)

SpecLive == Init /\ [][NextLive]_vars /\ \A c \in Conns : WF_vars(SessionStep(c))

(***************************************************************************)
(* checkpoint() statement by statement, on the session thread whose        *)
(* server_tick() at the top of its loop (line 191) found the task due,     *)
(* while the acceptor and the other session threads go on.  No lock guards *)
(* users.  A string copied into serializable_user is a value; a list is    *)
(* the list object of the record itself, read when line 143 and line 147   *)
(* serialize it.                                                           *)
(***************************************************************************)
\* the order in which a dict yields its keys: the order of insertion, which
\* here is the order of first_login
InsertionOrder(us) ==
    CHOOSE q \in [1..Cardinality(DOMAIN us) -> DOMAIN us] :
        /\ \A i, j \in DOMAIN q : i # j => q[i] # q[j]
        /\ \A i, j \in DOMAIN q :
              i < j => \/ us[q[i]].first_login.t < us[q[j]].first_login.t
                       \/ (us[q[i]].first_login.t = us[q[j]].first_login.t /\ q[i] < q[j])

ListRef == [type |-> "list"]
ListKeys == {"commands", "messages_received"}

\* lines 129-138 for one record: strings by value, lists by reference
CopyRecord(rec) ==
    [k \in SerializableKeys(rec) |->
        IF k \in ListKeys THEN ListRef ELSE serializable_user(rec)[k]]

\* what lines 143 and 147 read: the copied strings, the lists as they are now
Resolve(copied, us) ==
    [u \in DOMAIN copied |->
        [k \in DOMAIN copied[u] |->
            IF copied[u][k] = ListRef THEN us[u][k] ELSE copied[u][k]]]

\* json.dumps (line 143) and msgpack.packb (line 147) accept the object
Dumpable(obj) ==
    \A u \in DOMAIN obj : \A k \in DOMAIN obj[u] : is_serializable(k, obj[u][k])

\* lines 119-127: the sweep, the notices, the start of the loop of line 128
CkptBegin(c) ==
    /\ ck.pc = "idle"
    /\ sess[c].pc = "read"
    /\ nperiodic < MaxPeriodic
    /\ nperiodic' = nperiodic + 1
    /\ users' = CheckpointSweep(users)
    /\ sent' = CheckpointNotice(users, sent)
    /\ sess' = Goto(c, "checkpoint")
    /\ ck' = [pc |-> "copy", thread |-> c, todo |-> InsertionOrder(users),
              size |-> Cardinality(DOMAIN users),
              serializable_users |-> EmptyDirectory]
    /\ instants' = {users'}
    /\ UNCHANGED <<file, sock, peerClosed, acc, now, nread>>
    /\ UNCHANGED <<tickVars, unitVars>>

\* the exception leaves checkpoint() and server_tick(); line 191 is outside
\* the try of line 192, so the thread ends
CkptRaised ==
    /\ sess' = Goto(ck.thread, "raised")
    /\ ck' = NoCheckpoint
    /\ instants' = {}
    /\ UNCHANGED file

\* lines 128-138, one turn of the loop: the iterator fails if the dict has
\* changed size, else the next record is copied
CkptCopy ==
    /\ ck.pc = "copy"
    /\ ck.todo # <<>>
    /\ IF Cardinality(DOMAIN users) # ck.size
       THEN CkptRaised
       ELSE /\ ck' = [ck EXCEPT !.todo = Tail(@),
                                !.serializable_users =
                                    [u \in DOMAIN @ \cup {Head(ck.todo)} |->
                                        IF u = Head(ck.todo)
                                        THEN CopyRecord(users[u])
                                        ELSE @[u]]]
            /\ UNCHANGED <<file, sess, instants>>
    /\ UNCHANGED <<users, sock, peerClosed, acc, sent, now, nread, nperiodic>>
    /\ UNCHANGED <<tickVars, unitVars>>

\* line 128, the turn that ends the loop: the iterator fails if the dict has
\* changed size
CkptLoopEnd ==
    /\ ck.pc = "copy"
    /\ ck.todo = <<>>
    /\ IF Cardinality(DOMAIN users) # ck.size
       THEN CkptRaised
       ELSE /\ ck' = [ck EXCEPT !.pc = "dump"]
            /\ UNCHANGED <<file, sess, instants>>
    /\ UNCHANGED <<users, sock, peerClosed, acc, sent, now, nread, nperiodic>>
    /\ UNCHANGED <<tickVars, unitVars>>

\* lines 143-148: the object is dumped, packed and written
CkptWrite ==
    /\ ck.pc = "dump"
    /\ LET obj == Resolve(ck.serializable_users, users)
       IN  IF ~Dumpable(obj)
           THEN CkptRaised
           ELSE /\ file' = packb(obj)
                /\ ck' = [ck EXCEPT !.pc = "verify", !.serializable_users = obj]
                /\ UNCHANGED <<sess, instants>>
    /\ UNCHANGED <<users, sock, peerClosed, acc, sent, now, nread, nperiodic>>
    /\ UNCHANGED <<tickVars, unitVars>>

\* lines 150-170: the file is read back and compared (messages only), the
\* thread returns to its loop
CkptReturn ==
    /\ ck.pc = "verify"
    /\ sess' = Goto(ck.thread, "read")
    /\ ck' = NoCheckpoint
    /\ instants' = {}
    /\ UNCHANGED <<users, file, sock, peerClosed, acc, sent, now, nread, nperiodic>>
    /\ UNCHANGED <<tickVars, unitVars>>

NextCkpt ==
    \/ AcceptorAccept
    \/ AcceptorLogin
    \/ \E c \in Conns : SessionStart(c)
    \/ \E c \in Conns : SessionRead(c)
    \/ \E c \in Conns : SessionDispatch(c)
    \/ \E c \in Conns : SessionSendAppend(c)
    \/ \E c \in Conns : SessionSendDeliver(c)
    \/ \E c \in Conns : SessionQuitClose(c)
    \/ \E c \in Conns : CkptBegin(c)
    \/ CkptCopy
    \/ CkptLoopEnd
    \/ CkptWrite
    \/ CkptReturn

SpecCkpt == Init /\ [][NextCkpt]_vars

(***************************************************************************)
(* C7.  The tick counter is an unsigned 16-bit value: it is always in      *)
(* 0..65535 (so a tick at 65535 takes it to 0, and the 65536th call from 0 *)
(* leaves it at 0).                                                        *)
(***************************************************************************)
C7_TickCounterIs16Bit == server_ticks \in 0..(TickModulus - 1)

(***************************************************************************)
(* C8.  Under every interleaving of concurrent server_tick() calls, the    *)
(* last-run tick is the never-run sentinel or a multiple of the interval,  *)
(* and once no call is in progress the task has run exactly once for every *)
(* multiple of the interval the counter has reached.                       *)
(***************************************************************************)
C8_TaskOncePerMultiple ==
    /\ last_run = NeverRun \/ last_run % CheckpointInterval = 0
    /\ (\A t \in Threads : tick[t].pc = "idle") => task_calls = TaskRunsAfter(server_ticks)

(***************************************************************************)
(* Properties of the protocol (Spec).                                      *)
(***************************************************************************)
Running(c) == sess[c].pc \notin {"none", "done", "raised"}
Stored(u, c) == u \in DOMAIN users /\ Has(users[u], "conn") /\ users[u].conn = c
IsPrefix(a, b) == Len(a) <= Len(b) /\ SubSeq(b, 1, Len(a)) = a
LastSent(c) == sent[c][Len(sent[c])]

\* the acceptor step that handles the login line rd of the connection it holds
LoginStep(rd) ==
    /\ acc.pc = "login"
    /\ acc'.pc # "login"
    /\ Len(sent'[acc.conn]) > Len(sent[acc.conn])
    /\ sent'[acc.conn][Len(sent[acc.conn]) + 1] = Msg("echo", rd)

(***************************************************************************)
(* C1.  In every reachable state at most one open connection is associated *)
(* with a username, where a connection is associated with the username its *)
(* record stores it under and with the username its session handler runs   *)
(* for (a handler in the middle of QUIT included).                         *)
(***************************************************************************)
LiveConnections(u) ==
    {c \in Conns : sock[c] = "open" /\ (Stored(u, c) \/ (Running(c) /\ sess[c].username = u))}

C1_OneLiveConnectionPerUser ==
    \A u \in DOMAIN users : Cardinality(LiveConnections(u)) <= 1

(***************************************************************************)
(* C2.  Once a session has ended (QUIT, or a failure that left the session *)
(* loop), the user's record no longer stores that session's connection.    *)
(***************************************************************************)
C2_EndedSessionIsCleared ==
    \A c \in Conns : sess[c].pc \in {"done", "raised"} => ~Stored(sess[c].username, c)

(***************************************************************************)
(* C3.  Every login line that fails validation (first word not LOGIN, no   *)
(* username word, username shorter than 4 characters) is answered with an  *)
(* error, the connection is closed, no record is created and the acceptor  *)
(* accepts again.                                                          *)
(***************************************************************************)
InvalidLoginLines ==
    {rd \in LoginLines :
        \/ command_parts(rd)[1] # "LOGIN"
        \/ Len(command_parts(rd)) < 2
        \/ Len(command_parts(rd)[2]) < MinUsernameLen}

C3_InvalidLoginRejected ==
    [][\A rd \in InvalidLoginLines :
          LoginStep(rd) =>
              /\ sent'[acc.conn][Len(sent'[acc.conn])].kind = "ERROR"
              /\ sock'[acc.conn] = "closed"
              /\ DOMAIN users' = DOMAIN users
              /\ sess'[acc.conn].pc = "none"
              /\ acc'.pc = "accept"]_vars

(***************************************************************************)
(* C4.  Handling a command never ends the session loop by a failure: from  *)
(* the statements that process a received line the handler goes on to the  *)
(* next read, or leaves by QUIT.                                           *)
(***************************************************************************)
C4_CommandFailureKeepsSession ==
    [][\A c \in Conns :
          sess[c].pc \in {"dispatch", "send_append", "send_deliver"}
              => sess'[c].pc # "raised"]_vars

(***************************************************************************)
(* C5.  A SEND to a recipient that exists and is online appends exactly    *)
(* one entry to the recipient's inbox, and the entry records the sender's  *)
(* username and the message text; the message is then delivered to the     *)
(* recipient's connection and the sender gets the OK confirmation.         *)
(***************************************************************************)
C5_SendRecordsSenderAndConfirms ==
    [][\A c \in Conns :
          LET parts == command_parts(sess[c].received_data)
          IN  /\ (sess[c].pc = "send_append" /\ sess'[c].pc = "send_deliver") =>
                    LET inbox == users[parts[2]].messages_received
                        inbox2 == users'[parts[2]].messages_received
                    IN  /\ Len(inbox2) = Len(inbox) + 1
                        /\ IsPrefix(inbox, inbox2)
                        /\ Has(inbox2[Len(inbox2)], "sender")
                        /\ inbox2[Len(inbox2)].sender = sess[c].username
                        /\ inbox2[Len(inbox2)].message = JoinFrom3(parts)
              /\ (sess[c].pc = "send_deliver" /\ sess'[c].pc = "read") =>
                    /\ sent'[c][Len(sent'[c])] = Msg("OK: Message sent", parts[2])
                    /\ \E d \in Conns : /\ Stored(parts[2], d)
                                        /\ Len(sent'[d]) > Len(sent[d])
                                        /\ sent'[d][Len(sent[d]) + 1].kind = "message"
                                        /\ sent'[d][Len(sent[d]) + 1].arg = JoinFrom3(parts)]_vars

(***************************************************************************)
(* C6.  The directory load_checkpoint() reads from the file a checkpoint   *)
(* has just written has the usernames of the directory in memory, and each *)
(* record has every field of the record in memory but conn, with the same  *)
(* value.                                                                  *)
(***************************************************************************)
SameButConn(mem, loaded) ==
    /\ DOMAIN loaded = DOMAIN mem
    /\ \A u \in DOMAIN mem :
          /\ DOMAIN loaded[u] = DOMAIN mem[u] \ {"conn"}
          /\ \A k \in DOMAIN loaded[u] : loaded[u][k] = mem[u][k]

C6_SaveLoadRoundTrip ==
    [][file' # file => SameButConn(users', load_checkpoint(file'))]_vars

(***************************************************************************)
(* C9.  Of the connections that log in with the same username while none   *)
(* of them has quit, exactly one is handed to a session handler: at any    *)
(* moment at most one connection holds a username (its handler started and *)
(* has not executed QUIT), that connection is the one the single record of *)
(* the username stores, and it is open.                                    *)
(***************************************************************************)
Holders(u) ==
    {c \in Conns : sess[c].username = u /\ sess[c].pc \notin {"none", "quit_close", "done"}}

C9_OneLoginWins ==
    \A u \in Names :
        /\ Cardinality(Holders(u)) <= 1
        /\ \A c \in Holders(u) : Stored(u, c) /\ sock[c] = "open"

\* a second connection has been turned away as already online while the
\* first still holds the username
C9_Witness ==
    \E c, d \in Conns :
        /\ c # d
        /\ c \in Holders(sess[c].username)
        /\ sock[d] = "closed"
        /\ sent[d] # <<>>
        /\ LastSent(d) = Msg("ERROR", "Username is already online. Bye.")
        /\ sent[d][Len(sent[d]) - 1] = Msg("echo", Line(<<"LOGIN", sess[c].username>>))

(***************************************************************************)
(* C10.  While the process runs, no step removes a username, changes a     *)
(* first_login, or changes a commands log or an inbox other than by        *)
(* appending; and the step that logs an existing user in again leaves      *)
(* every field of its record but conn as it was.                           *)
(***************************************************************************)
GrowsOnly(u) ==
    /\ u \in DOMAIN users'
    /\ \A k \in DOMAIN users[u] \ {"conn"} : Has(users'[u], k)
    /\ users'[u].first_login = users[u].first_login
    /\ Has(users[u], "commands") => IsPrefix(users[u].commands, users'[u].commands)
    /\ Has(users[u], "messages_received")
          => IsPrefix(users[u].messages_received, users'[u].messages_received)

ReLoginStep(c, u) ==
    /\ sess[c].pc = "none"
    /\ sess'[c].pc = "start"
    /\ sess'[c].username = u
    /\ u \in DOMAIN users

C10_DirectoryOnlyGrows ==
    [][~Restart =>
          /\ \A u \in DOMAIN users : GrowsOnly(u)
          /\ \A c \in Conns, u \in Names :
                ReLoginStep(c, u) =>
                    /\ users'[u].conn = c
                    /\ \A k \in (DOMAIN users[u] \cup DOMAIN users'[u]) \ {"conn"} :
                          Has(users[u], k) /\ Has(users'[u], k) /\ users'[u][k] = users[u][k]]_vars

\* a user has quit on one connection, logged in again on another and sent a
\* further command: the log holds the commands of both sessions
C10_Witness ==
    \E c, d \in Conns :
        /\ c # d
        /\ sess[d].pc = "done"
        /\ sess[d].username = sess[c].username
        /\ sess[c].pc = "read"
        /\ Stored(sess[c].username, c)
        /\ \E i \in 1..(Len(users[sess[c].username].commands) - 1) :
              users[sess[c].username].commands[i][2] = Line(<<"QUIT">>)
        /\ users[sess[c].username].first_login.t < users[sess[c].username].last_active.t

(***************************************************************************)
(* C11.  Starting with no checkpoint file the loaded directory is empty    *)
(* and stays empty until a file is written; and whenever a session handler *)
(* has been started for a username, the checkpoint file exists and holds   *)
(* that username (the write precedes the start of the handler).  It holds  *)
(* while every checkpoint is one step; a checkpoint of another thread that *)
(* has finished its loop before the login writes its older object after    *)
(* the acceptor's file.                                                    *)
(***************************************************************************)
C11_NewUserCheckpointedBeforeSession ==
    /\ load_checkpoint(NoFile) = EmptyDirectory
    /\ ~file.exists => users = EmptyDirectory
    /\ \A c \in Conns :
          sess[c].pc # "none"
              => file.exists /\ sess[c].username \in DOMAIN load_checkpoint(file)

(***************************************************************************)
(* C12.  The step that handles a SEND whose recipient has no record, or    *)
(* has one that is not online, appends one error to the sender's output    *)
(* ("does not exist", "not online"), sends nothing to any other            *)
(* connection, leaves every inbox as it was, creates no record, and goes   *)
(* on to the next read.                                                    *)
(***************************************************************************)
Online(u) ==
    /\ u \in DOMAIN users
    /\ Has(users[u], "conn")
    /\ users[u].conn # None
    /\ sock[users[u].conn] # "closed"

SameInbox(u) ==
    /\ Has(users'[u], "messages_received") = Has(users[u], "messages_received")
    /\ Has(users[u], "messages_received")
          => users'[u].messages_received = users[u].messages_received

C12_UndeliverableSendOnlyReports ==
    [][\A c \in Conns :
          LET parts == command_parts(sess[c].received_data)
          IN  (/\ sess[c].pc = "dispatch"
               /\ sess'[c].pc \notin {"dispatch", "none"}
               /\ parts[1] = "SEND"
               /\ Len(parts) >= 2
               /\ ~Online(parts[2]))
              =>
              /\ sent'[c] = Append(sent[c],
                                   Msg(IF parts[2] \in DOMAIN users
                                       THEN "ERROR not online"
                                       ELSE "ERROR does not exist", parts[2]))
              /\ \A d \in Conns \ {c} : sent'[d] = sent[d]
              /\ DOMAIN users' = DOMAIN users
              /\ \A u \in DOMAIN users : SameInbox(u)
              /\ sess'[c].pc = "read"]_vars

\* one sender has been told of a recipient that does not exist and of one
\* that is not online
C12_Witness ==
    \E c \in Conns :
        /\ sess[c].pc = "read"
        /\ sent[c] # <<>>
        /\ LastSent(c).kind = "ERROR not online"
        /\ LastSent(c).arg \in DOMAIN users
        /\ \E i \in DOMAIN sent[c] : sent[c][i] = Msg("ERROR does not exist", UnknownName)
        /\ UnknownName \notin DOMAIN users

(***************************************************************************)
(* C13.  user_is_connected(username) answers true exactly when the record  *)
(* holds a handle that is not None and whose socket is not closed, and     *)
(* then changes nothing; otherwise it answers false and the directory it   *)
(* leaves differs from the one it found only in that record's conn, which  *)
(* is None.                                                                *)
(***************************************************************************)
C13_LivenessCheckSelfHeals ==
    called # NoCall =>
        LET u == called.username
            b == called.before
        IN  /\ called.ret = (/\ Has(b[u], "conn")
                             /\ b[u].conn # None
                             /\ sock[b[u].conn] # "closed")
            /\ called.ret => users = b
            /\ ~called.ret =>
                  /\ DOMAIN users = DOMAIN b
                  /\ \A v \in DOMAIN b \ {u} : users[v] = b[v]
                  /\ DOMAIN users[u] = DOMAIN b[u] \cup {"conn"}
                  /\ users[u].conn = None
                  /\ \A k \in DOMAIN b[u] \ {"conn"} : users[u][k] = b[u][k]

\* the call found the handle of a closed socket, answered false and cleared it
C13_Witness ==
    /\ called # NoCall
    /\ ~called.ret
    /\ Has(called.before[called.username], "conn")
    /\ called.before[called.username].conn \in Conns
    /\ sock[called.before[called.username].conn] = "closed"
    /\ users[called.username].conn = None

(***************************************************************************)
(* C14.  The scan of handle_client leaves, of every chunk, the bytes that  *)
(* are outside every marker sequence, each once and in their order: a      *)
(* marker sequence is a marker byte that no earlier sequence covers, with  *)
(* the two bytes after it, or with those there are up to the chunk's end.  *)
(***************************************************************************)
\* the positions at which a marker sequence starts
MarkerStarts(raw) ==
    CHOOSE M \in SUBSET DOMAIN raw :
        \A i \in DOMAIN raw :
            i \in M <=> (raw[i] = IAC /\ \A j \in M : ~(j < i /\ i <= j + 2))

KeptPositions(raw) ==
    {i \in DOMAIN raw : \A j \in MarkerStarts(raw) : ~(j <= i /\ i <= j + 2)}

\* the bytes of raw at the positions K, in their order
BytesAt(raw, K) ==
    [n \in 1..Cardinality(K) |->
        raw[CHOOSE i \in K : Cardinality({j \in K : j < i}) = n - 1]]

C15_AcceptorAssemblesScrubbedLine ==
    [][aloop'.nrecv = aloop.nrecv + 1 =>
          LET h == handler_chunk(aloop'.raw_data, aloop.received_data, aloop.echoed)
          IN  h.outcome = "done" =>
                  /\ aloop'.pc # "raised"
                  /\ aloop'.received_data = h.received_data
                  /\ aloop'.echoed = h.echoed]_vars

(***************************************************************************)
(* C17.  The iteration of the session loop whose read was empty changes    *)
(* nothing in the directory and sends nothing; an iteration adds an entry  *)
(* to the commands log only when the line it read ended with a newline.    *)
(***************************************************************************)
C17_EmptyReadLogsNothing ==
    [][\A c \in Conns :
          (sess[c].pc = "dispatch" /\ sess'[c].pc \notin {"dispatch", "none"}) =>
              LET u == sess[c].username
              IN  /\ sess[c].received_data = EmptyRead
                        => users' = users /\ sent' = sent
                  /\ Len(users'[u].commands) > Len(users[u].commands)
                        => sess[c].received_data.nl]_vars

(***************************************************************************)
(* C19.  A session handler reads its next line only from the top of its    *)
(* loop, with no SEND of its own in progress; and the step that sends the  *)
(* OK of a SEND is taken in a state in which the recipient's inbox already *)
(* holds that message.                                                     *)
(***************************************************************************)
InInbox(u, entry) ==
    /\ u \in DOMAIN users
    /\ Has(users[u], "messages_received")
    /\ \E i \in DOMAIN users[u].messages_received : users[u].messages_received[i] = entry

C19_AppendBeforeConfirm ==
    [][\A c \in Conns :
          LET parts == command_parts(sess[c].received_data)
          IN  /\ (nread' # nread /\ sess'[c] # sess[c])
                    => sess[c].pc = "read" /\ sess[c].timestamp = 0
              /\ (/\ Len(sent'[c]) > Len(sent[c])
                  /\ sent'[c][Len(sent'[c])].kind = "OK: Message sent")
                    => /\ sess[c].pc = "send_deliver"
                       /\ sent'[c][Len(sent'[c])].arg = parts[2]
                       /\ InInbox(parts[2], InboxEntry(sess[c].username, sess[c].timestamp,
                                                       JoinFrom3(parts)))]_vars

\* a sender has its confirmation, the message is in the recipient's inbox,
\* and the sender has read its next line
C19_Witness ==
    \E c \in Conns :
        /\ sess[c].pc = "dispatch"
        /\ \E i \in DOMAIN sent[c] :
              /\ sent[c][i].kind = "OK: Message sent"
              /\ i + 1 = Len(sent[c])
              /\ \E t \in 1..now :
                    InInbox(sent[c][i].arg, InboxEntry(sess[c].username, t, <<"hello">>))

(***************************************************************************)
(* C20.  No session has ended on a SEND whose message is in the            *)
(* recipient's inbox: a SEND that has appended its message goes on to      *)
(* deliver and confirm it, whatever the recipient's session does           *)
(* meanwhile.                                                              *)
(***************************************************************************)
C20_SendAtomicAgainstQuit ==
    \A c \in Conns :
        LET parts == command_parts(sess[c].received_data)
        IN  (sess[c].pc = "raised" /\ parts[1] = "SEND" /\ Len(parts) >= 2)
                => ~InInbox(parts[2], InboxEntry(sess[c].username, sess[c].timestamp,
                                                 JoinFrom3(parts)))

(***************************************************************************)
(* C16.  Once the client of a running session has closed the connection,   *)
(* the session loop of that connection ends.                               *)
(***************************************************************************)
C16_ClosedPeerEndsSession ==
    \A c \in Conns : (c \in peerClosed /\ Running(c)) ~> ~Running(c)

(***************************************************************************)
(* C18.  What a checkpoint has written is a snapshot: its usernames are    *)
(* those of the directory at one instant of the checkpoint, and each       *)
(* record it holds is what one instant's record serializes to.             *)
(***************************************************************************)
C18_CheckpointIsSnapshot ==
    ck.pc = "verify" =>
        /\ \E us \in instants : DOMAIN ck.serializable_users = DOMAIN us
        /\ \A u \in DOMAIN ck.serializable_users :
              \E us \in instants :
                  /\ u \in DOMAIN us
                  /\ ck.serializable_users[u] = serializable_user(us[u])

====
